---- MODULE Spec2Model ----
\* Model of generate_inspection_plan.py: the inspection-plan pipeline
\*   load -> call_llm (extract_json_from_text, json.loads) -> enrich_with_coordinates
\*        -> solve_tsp_with_fixed_ends -> assemble -> write today_inspection_plan.json
\*
\* Conventions
\*   - The two reserved point names are Chinese literals in the source; they are
\*     written here in ASCII: ENTRANCE stands for the source's entrance name
\*     (line 57) and EXIT for its exit name (line 68).
\*   - Registry coordinates are integers counting 1e-4 units; round(v, 3) yields
\*     integers counting 1e-3 units.
\*   - euclidean_distance is kept as the squared distance dx^2 + dy^2 over the
\*     rounded coordinates: math.hypot is monotone in it, so "min by distance"
\*     and "equal distance" are decided exactly as by the exact distance.
\*   - A text is a sequence of one-character tokens (see Alphabet).
EXTENDS Integers, Sequences, FiniteSets, Bags, TLC

\* ---------------------------------------------------------------- bounds
\* longest inspection_plan list the decision service returns
MaxItems == 2
\* every text up to this length over Alphabet is a possible service output
MaxTextLen == 3

\* ---------------------------------------------------------------- names
ENTRANCE == "entrance"
EXIT == "exit"

\* fixed strings of main(), Chinese in the source and rendered in English
\* here: the reason used when there is no decision (line 267) and the
\* fallback of llm_output.get("decision_reason", ...) (line 269)
DEFAULT_REASON == "no task points, transit only"
NO_REASON == "no explanation"

\* Python values that are not strings, where a string is expected
\* (dict.get returning None; a JSON array, which is unhashable; a JSON number)
PyNone == "<None>"
PyList == "<list>"
PyNum == "<number>"

\* ---------------------------------------------------------------- registry
\* round(v, 3) of a value counted in 1e-4 units, as a count of 1e-3 units.
\* An exact tie goes to the even neighbour, as round() does for a float that
\* holds the tie exactly; no coordinate of Registries is a tie.
Round3(v) ==
    LET q == v \div 10
        r == v % 10
    IN  IF r < 5 THEN q
        ELSE IF r > 5 THEN q + 1
        ELSE IF q % 2 = 0 THEN q ELSE q + 1

Pt(x, y, z, t) == [x |-> x, y |-> y, z |-> z, arm_task |-> t]

\* The registry of the worked example (entrance (0,0), exit (10,0), A (5,5),
\* B (5,-5)), with a third task point C near the entrance whose coordinates
\* are not multiples of 1e-3, and a point whose name is the empty string.
FullRegistry ==
    (ENTRANCE :> Pt(0, 0, 0, 0)) @@ (EXIT :> Pt(100000, 0, 0, 0)) @@
    ("A" :> Pt(50000, 50000, 0, 2)) @@ ("B" :> Pt(50000, -50000, 0, 1)) @@
    ("C" :> Pt(20004, -6, 15000, 0)) @@ ("" :> Pt(10000, 10000, 0, 1))

Restrict(f, S) == [n \in S |-> f[n]]

\* the contents patrol_points_arm.yaml may have
Registries ==
    { FullRegistry,
      Restrict(FullRegistry, {ENTRANCE, EXIT, "A", "B", "C"}),
      Restrict(FullRegistry, DOMAIN FullRegistry \ {ENTRANCE}),
      Restrict(FullRegistry, DOMAIN FullRegistry \ {EXIT}),
      Restrict(FullRegistry, {"A", "B"}) }

\* ---------------------------------------------------------------- geometry
position(p) == <<Round3(p.x), Round3(p.y), Round3(p.z)>>

xy(pos) == <<pos[1], pos[2]>>

euclidean_distance(p1, p2) ==
    (p1[1] - p2[1]) * (p1[1] - p2[1]) + (p1[2] - p2[2]) * (p1[2] - p2[2])

\* ---------------------------------------------------------------- texts
\* One token per character class the extractor distinguishes:
\*   "{" "}"  braces          "F"  a code fence (three backticks)
\*   "j"      the fence tag json (any letter case)
\*   " "      whitespace      "k"  an object member's key and colon
\*   "1"      a digit         "Q"  a string quote (the double-quote character)
\*   "x"      any other character
Alphabet == {"{", "}", "F", "j", " ", "k", "1", "Q", "x"}

\* texts longer than MaxTextLen that exercise the fenced and brace-scan tiers
LongTexts ==
    { <<"{", "k", "1", "}">>,
      <<" ", "{", "k", "{", "}", "}", " ">>,
      <<"F", "j", " ", "{", "k", "1", "}", " ", "F">>,
      <<"x", "F", "{", "k", "1", "}", "F", "x">>,
      <<"F", "{", "}", "F">>,
      <<"F", "1", "F">>,
      <<"F", "Q", "x", "Q", "F">>,
      <<"x", " ", "{", "k", "1", "}", " ", "x">>,
      <<"x", "{", "k", "{", "k", "1", "}", "}">>,
      <<"F", "{", "x", "}", "F">>,
      <<"F", "{", "x", "}", "F", "{", "k", "1", "}">>,
      <<"x", "{", "k", "Q", "F", "{", "x", "}", "F", "Q", "}">>,
      <<"x", "{", "k", "Q", "F", "{", "}", "F", "Q", "}">>,
      <<"F", "{", "k", "{", "}", "}", "F">>,
      <<"F", "{", "k", "1", "}", "F", "x", "F", "{", "x", "}", "F">>,
      <<"{", "k", "1", "}", "x", "{", "k", "1", "}">>,
      <<"x", "{", "k", "1">>,
      <<"x", "}", "{", "x">>,
      <<"j", "{", "k", "1", "}">>,
      <<"F", "x", "{", "k", "1", "}", "F">>,
      <<"Q", "x", "Q">> }

RECURSIVE SeqsUpTo(_)
SeqsUpTo(n) ==
    IF n = 0 THEN {<<>>}
    ELSE LET S == SeqsUpTo(n - 1)
         IN  S \cup {Append(s, c) : s \in {u \in S : Len(u) = n - 1}, c \in Alphabet}

\* message.content values the decision service may return
Texts == SeqsUpTo(MaxTextLen) \cup LongTexts

RECURSIVE SkipWs(_, _)
\* first index >= i of t that holds no whitespace (Len(t) + 1 when there is none)
SkipWs(t, i) ==
    IF i <= Len(t) /\ t[i] = " " THEN SkipWs(t, i + 1) ELSE i

RECURSIVE SkipWsBack(_, _)
SkipWsBack(t, i) ==
    IF i >= 1 /\ t[i] = " " THEN SkipWsBack(t, i - 1) ELSE i

\* str.strip()
strip(t) == SubSeq(t, SkipWs(t, 1), SkipWsBack(t, Len(t)))

RECURSIVE SkipDigits(_, _)
SkipDigits(t, i) ==
    IF i <= Len(t) /\ t[i] = "1" THEN SkipDigits(t, i + 1) ELSE i

\* index after the closing quote of the string literal, 0 when it never closes
CloseQuote(t, i) ==
    LET Q == {j \in (i + 1)..Len(t) : t[j] = "Q"}
    IN  IF Q = {} THEN 0 ELSE (CHOOSE j \in Q : \A m \in Q : j <= m) + 1

RECURSIVE ParseValue(_, _)
\* the JSON value starting at t[i]: the index after it, 0 when there is none.
\*   value  ::= digit+ | quote any* quote | "{" ws "}" | "{" ws key ws value ws "}"
ParseValue(t, i) ==
    IF i > Len(t) THEN 0
    ELSE IF t[i] = "1" THEN SkipDigits(t, i)
    ELSE IF t[i] = "Q" THEN CloseQuote(t, i)
    ELSE IF t[i] = "{" THEN
        LET a == SkipWs(t, i + 1)
        IN  IF a > Len(t) THEN 0
            ELSE IF t[a] = "}" THEN a + 1
            ELSE IF t[a] = "k" THEN
                LET v == ParseValue(t, SkipWs(t, a + 1))
                    c == IF v = 0 THEN 0 ELSE SkipWs(t, v)
                IN  IF c # 0 /\ c <= Len(t) /\ t[c] = "}" THEN c + 1 ELSE 0
            ELSE 0
    ELSE 0

\* json.loads(t) does not raise JSONDecodeError
json_parses(t) ==
    LET a == SkipWs(t, 1)
        v == ParseValue(t, a)
    IN  v # 0 /\ SkipWs(t, v) = Len(t) + 1

\* re.search(r"```(?:json)?\s*({.*?})\s*```", text): group 1, or <<>> when
\* there is no match (a match is never empty: it holds at least "{" and "}")
FenceOpen(t, i) ==
    LET a == IF i + 1 <= Len(t) /\ t[i + 1] = "j" THEN i + 2 ELSE i + 1
        b == SkipWs(t, a)
    IN  IF b <= Len(t) /\ t[b] = "{" THEN b ELSE 0

FenceClose(t, e) ==
    /\ t[e] = "}"
    /\ LET f == SkipWs(t, e + 1) IN f <= Len(t) /\ t[f] = "F"

FencedEnds(t, b) == {e \in (b + 1)..Len(t) : FenceClose(t, e)}

search_fenced(t) ==
    LET Starts == {i \in 1..Len(t) :
                     /\ t[i] = "F"
                     /\ FenceOpen(t, i) # 0
                     /\ FencedEnds(t, FenceOpen(t, i)) # {}}
    IN  IF Starts = {} THEN <<>>
        ELSE LET i == CHOOSE s \in Starts : \A m \in Starts : s <= m
                 b == FenceOpen(t, i)
                 e == CHOOSE n \in FencedEnds(t, b) : \A m \in FencedEnds(t, b) : n <= m
             IN  SubSeq(t, b, e)

\* re.search(r"\{.*\}", text): group 0, or <<>> when there is no match
search_braces(t) ==
    LET Opens == {i \in 1..Len(t) : t[i] = "{"}
    IN  IF Opens = {} THEN <<>>
        ELSE LET b == CHOOSE s \in Opens : \A m \in Opens : s <= m
                 Closes == {e \in (b + 1)..Len(t) : t[e] = "}"}
             IN  IF Closes = {} THEN <<>>
                 ELSE SubSeq(t, b, CHOOSE n \in Closes : \A m \in Closes : n >= m)

\* ---------------------------------------------------------------- values
\* Absent marks a key the decoded object does not have.
Absent == "<absent>"

\* A decoded JSON value, as far as main() looks into it: its Python type,
\* its truth value, and for an object the two keys that are read.
\*   plan_kind: "absent" (no inspection_plan key), "null", or "list"
PyValue(kind, truthy) ==
    [kind |-> kind, truthy |-> truthy, decision_reason |-> Absent,
     plan_kind |-> "absent", items |-> <<>>]

NoneValue == PyValue("None", FALSE)

\* An element of inspection_plan: point_name and action hold what
\* item.get(...) returns (PyNone when the key is missing).
Item(name, action) == [is_dict |-> TRUE, point_name |-> name, action |-> action]

NotADict == [is_dict |-> FALSE, point_name |-> PyNone, action |-> PyNone]

Items ==
    { Item("A", "arrive"), Item("A", "task_1"), Item("B", "task_2"),
      Item("B", "inspect"), Item("C", PyNone), Item("C", PyNum),
      Item("A", PyList), Item("", "arrive"), Item("Z", "arrive"),
      Item(ENTRANCE, "arrive"), Item(EXIT, "task_1"), Item(PyNone, "arrive"),
      Item(PyList, "arrive"), NotADict }

RECURSIVE ListsUpTo(_)
ListsUpTo(n) ==
    IF n = 0 THEN {<<>>}
    ELSE LET S == ListsUpTo(n - 1)
         IN  S \cup {Append(s, c) : s \in {u \in S : Len(u) = n - 1}, c \in Items}

\* the decision_reason of a decoded object: missing, or some string
Reasons == {Absent, "retry B: grasp failed", ""}

\* the non-empty objects a recovered text may denote
Decisions ==
    { [kind |-> "dict", truthy |-> TRUE, decision_reason |-> r,
       plan_kind |-> k[1], items |-> k[2]] :
        r \in Reasons,
        k \in {<<"absent", <<>> >>, <<"null", <<>> >>}
              \cup {<<"list", l>> : l \in ListsUpTo(MaxItems)} }

\* the values json.loads(s) may return for a text s that parses: a number, a
\* string, the empty object, or an object with members (any of Decisions)
json_loads(s) ==
    LET a == SkipWs(s, 1)
    IN  IF s[a] = "1" THEN {PyValue("number", TRUE)}
        ELSE IF s[a] = "Q" THEN {PyValue("str", CloseQuote(s, a) > a + 2)}
        ELSE IF s[SkipWs(s, a + 1)] = "}" THEN {PyValue("dict", FALSE)}
        ELSE Decisions

\* ---------------------------------------------------------------- enrich
action_map(code) ==
    CASE code = "arrive" -> "arrive"
      [] code = "task_1" -> "execute_arm_task_1"
      [] code = "task_2" -> "execute_arm_task_2"
      [] OTHER -> "unknown"

\* "not name"
name_is_falsy(name) == name \in {PyNone, ""}

\* faulty variant of skip_item: the entrance/exit filter is left out
skip_item_keeps_ends(name, point_dict) ==
    \/ name_is_falsy(name)
    \/ name \notin DOMAIN point_dict

\* the item is skipped by one of the two "continue" statements
skip_item(name, point_dict) ==
    \/ name_is_falsy(name)
    \/ name \notin DOMAIN point_dict
    \/ name \in {ENTRANCE, EXIT}

\* the item makes the loop body raise: item.get on a non-dict, or an
\* unhashable value used as a dict key (name in point_dict, action_map.get)
item_raises(item, point_dict) ==
    \/ ~item.is_dict
    \/ (~name_is_falsy(item.point_name) /\ item.point_name = PyList)
    \/ (~skip_item(item.point_name, point_dict) /\ item.action = PyList)

enriched_record(item, point_dict) ==
    [point_name |-> item.point_name,
     position |-> position(point_dict[item.point_name]),
     action |-> action_map(item.action),
     arm_task_type |-> point_dict[item.point_name].arm_task]

RECURSIVE enrich_loop(_, _, _, _)
enrich_loop(items, i, point_dict, enriched) ==
    IF i > Len(items) THEN [raised |-> FALSE, enriched |-> enriched]
    ELSE IF item_raises(items[i], point_dict)
         THEN [raised |-> TRUE, enriched |-> <<>>]
    ELSE IF skip_item(items[i].point_name, point_dict)
         THEN enrich_loop(items, i + 1, point_dict, enriched)
    ELSE enrich_loop(items, i + 1, point_dict,
                     Append(enriched, enriched_record(items[i], point_dict)))

\* llm_plan is a dict here; iterating a null inspection_plan raises
enrich_with_coordinates(llm_plan, point_dict) ==
    IF llm_plan.plan_kind = "null" THEN [raised |-> TRUE, enriched |-> <<>>]
    ELSE enrich_loop(llm_plan.items, 1, point_dict, <<>>)

\* ---------------------------------------------------------------- ordering
start_point(point_dict) ==
    [point_name |-> ENTRANCE, position |-> position(point_dict[ENTRANCE]),
     action |-> "arrive", arm_task_type |-> 0]

end_point(point_dict) ==
    [point_name |-> EXIT, position |-> position(point_dict[EXIT]),
     action |-> "arrive", arm_task_type |-> 0]

\* a ValueError is raised for a missing entrance or exit
ends_missing(point_dict) ==
    ENTRANCE \notin DOMAIN point_dict \/ EXIT \notin DOMAIN point_dict

\* faulty variant of nearest_index: among equal distances the last one wins
nearest_index_last(unvisited, current_pos) ==
    CHOOSE i \in 1..Len(unvisited) :
        /\ \A j \in 1..Len(unvisited) :
              euclidean_distance(current_pos, xy(unvisited[i].position))
                <= euclidean_distance(current_pos, xy(unvisited[j].position))
        /\ \A j \in (i + 1)..Len(unvisited) :
              euclidean_distance(current_pos, xy(unvisited[j].position))
                > euclidean_distance(current_pos, xy(unvisited[i].position))

\* min(unvisited, key=distance from current_pos): the first minimal element
nearest_index(unvisited, current_pos) ==
    CHOOSE i \in 1..Len(unvisited) :
        /\ \A j \in 1..Len(unvisited) :
              euclidean_distance(current_pos, xy(unvisited[i].position))
                <= euclidean_distance(current_pos, xy(unvisited[j].position))
        /\ \A j \in 1..(i - 1) :
              euclidean_distance(current_pos, xy(unvisited[j].position))
                > euclidean_distance(current_pos, xy(unvisited[i].position))

nearest(unvisited, current_pos) == unvisited[nearest_index(unvisited, current_pos)]

\* faulty variant of list_remove: every element equal to value is dropped
list_remove_all(list, value) ==
    LET Keep(v) == v # value IN SelectSeq(list, Keep)

\* list.remove(value): drops the first element equal to value
list_remove(list, value) ==
    LET i == CHOOSE k \in 1..Len(list) :
                 list[k] = value /\ \A m \in 1..(k - 1) : list[m] # value
    IN  SubSeq(list, 1, i - 1) \o SubSeq(list, i + 1, Len(list))

\* ---------------------------------------------------------------- assembly
\* The squared 2D length of every leg of the route, in order;
\* total_distance_meters is round(sum of their square roots, 2).
leg_lengths(waypoints) ==
    [i \in 1..(Len(waypoints) - 1) |->
        euclidean_distance(xy(waypoints[i].position), xy(waypoints[i + 1].position))]

final_plan(reason, waypoints) ==
    [timestamp |-> "2026-02-14T10:00:00",
     source |-> "Qwen3Max_TSP_EntranceToExit_Chinese",
     decision_reason |-> reason,
     legs_squared |-> leg_lengths(waypoints),
     waypoints |-> waypoints]

\* ---------------------------------------------------------------- state
VARIABLES
    pc,                \* where the run is
    point_dict,        \* the registry load_data() returned
    text,              \* extract_json_from_text: the stripped text
    json_str,          \* extract_json_from_text: its result (<<>> is None)
    attempts,          \* the tiers tried so far, each with its outcome
    llm_output,        \* what call_llm() returned
    decision_reason,
    middle_waypoints,
    ordered,           \* solve_tsp_with_fixed_ends: the greedy loop's locals
    unvisited,
    current_pos,
    iterations,        \* passes of the while loop so far
    ordered_waypoints,
    plan_file,         \* every write of today_inspection_plan.json, in order
    llm_calls,         \* calls of Generation.call so far
    enrich_calls       \* calls of enrich_with_coordinates so far

vars == <<pc, point_dict, text, json_str, attempts, llm_output, decision_reason,
          middle_waypoints, ordered, unvisited, current_pos, iterations,
          ordered_waypoints, plan_file, llm_calls, enrich_calls>>

extract_vars == <<text, json_str, attempts>>
main_vars == <<decision_reason, middle_waypoints, ordered_waypoints, plan_file>>
loop_vars == <<ordered, unvisited, current_pos, iterations>>

NoRegistry == [n \in {} |-> Pt(0, 0, 0, 0)]

Init ==
    /\ pc = "load"
    /\ point_dict = NoRegistry
    /\ text = <<>>
    /\ json_str = <<>>
    /\ attempts = <<>>
    /\ llm_output = NoneValue
    /\ decision_reason = Absent
    /\ middle_waypoints = <<>>
    /\ ordered = <<>>
    /\ unvisited = <<>>
    /\ current_pos = <<0, 0>>
    /\ iterations = 0
    /\ ordered_waypoints = <<>>
    /\ plan_file = <<>>
    /\ llm_calls = 0
    /\ enrich_calls = 0

\* ---------------------------------------------------------------- main: load
\* load_map_metadata() and load_data() succeed; build_prompt() only reads the
\* registry and the log and leaves no state behind
Load ==
    /\ pc = "load"
    /\ \E reg \in Registries : point_dict' = reg
    /\ pc' = "call_llm"
    /\ UNCHANGED <<extract_vars, llm_output, main_vars, loop_vars, llm_calls, enrich_calls>>

\* one of them raises (a resource is missing or malformed): main returns
LoadFails ==
    /\ pc = "load"
    /\ pc' = "aborted"
    /\ UNCHANGED <<point_dict, extract_vars, llm_output, main_vars, loop_vars,
                   llm_calls, enrich_calls>>

\* ---------------------------------------------------------------- call_llm
\* Generation.call raises (network failure, timeout), or the status is not
\* 200, or the response holds no message content: call_llm returns None
CallFails ==
    /\ pc = "call_llm"
    /\ llm_calls' = llm_calls + 1
    /\ llm_output' = NoneValue
    /\ pc' = "decide"
    /\ UNCHANGED <<point_dict, extract_vars, main_vars, loop_vars, enrich_calls>>

\* status 200 with some text: extract_json_from_text is entered and strips it
CallReturnsText ==
    /\ pc = "call_llm"
    /\ llm_calls' = llm_calls + 1
    /\ \E t \in Texts : text' = strip(t)
    /\ json_str' = <<>>
    /\ attempts' = <<>>
    /\ pc' = "tier1"
    /\ UNCHANGED <<point_dict, llm_output, main_vars, loop_vars, enrich_calls>>

\* tier 1: the whole stripped text
Tier1 ==
    /\ pc = "tier1"
    /\ IF json_parses(text)
       THEN /\ json_str' = text
            /\ attempts' = Append(attempts, <<1, "parsed">>)
            /\ pc' = "loads"
       ELSE /\ json_str' = json_str
            /\ attempts' = Append(attempts, <<1, "bad json">>)
            /\ pc' = "tier2"
    /\ UNCHANGED <<point_dict, text, llm_output, main_vars, loop_vars,
                   llm_calls, enrich_calls>>

\* faulty variant of Tier2: a fenced block that does not parse ends the search
Tier2_gives_up ==
    /\ pc = "tier2"
    /\ LET group == search_fenced(text)
       IN  IF group # <<>> /\ json_parses(group)
           THEN /\ json_str' = group
                /\ attempts' = Append(attempts, <<2, "parsed">>)
                /\ pc' = "loads"
           ELSE IF group # <<>>
           THEN /\ json_str' = <<>>
                /\ attempts' = Append(attempts, <<2, "bad json">>)
                /\ pc' = "loads"
           ELSE /\ json_str' = json_str
                /\ attempts' = Append(attempts, <<2, "no match">>)
                /\ pc' = "tier3"
    /\ UNCHANGED <<point_dict, text, llm_output, main_vars, loop_vars,
                   llm_calls, enrich_calls>>

\* tier 2: the fenced block
Tier2 ==
    /\ pc = "tier2"
    /\ LET group == search_fenced(text)
       IN  IF group # <<>> /\ json_parses(group)
           THEN /\ json_str' = group
                /\ attempts' = Append(attempts, <<2, "parsed">>)
                /\ pc' = "loads"
           ELSE /\ json_str' = json_str
                /\ attempts' = Append(attempts,
                       <<2, IF group = <<>> THEN "no match" ELSE "bad json">>)
                /\ pc' = "tier3"
    /\ UNCHANGED <<point_dict, text, llm_output, main_vars, loop_vars,
                   llm_calls, enrich_calls>>

\* tier 3: the first brace to the last one; None when it fails too
Tier3 ==
    /\ pc = "tier3"
    /\ LET group == search_braces(text)
       IN  IF group # <<>> /\ json_parses(group)
           THEN /\ json_str' = group
                /\ attempts' = Append(attempts, <<3, "parsed">>)
           ELSE /\ json_str' = <<>>
                /\ attempts' = Append(attempts,
                       <<3, IF group = <<>> THEN "no match" ELSE "bad json">>)
    /\ pc' = "loads"
    /\ UNCHANGED <<point_dict, text, llm_output, main_vars, loop_vars,
                   llm_calls, enrich_calls>>

\* "return json.loads(json_str) if json_str else None"
Loads ==
    /\ pc = "loads"
    /\ IF json_str # <<>>
       THEN \E v \in json_loads(json_str) : llm_output' = v
       ELSE llm_output' = NoneValue
    /\ text' = <<>>
    /\ json_str' = <<>>
    /\ attempts' = <<>>
    /\ pc' = "decide"
    /\ UNCHANGED <<point_dict, main_vars, loop_vars, llm_calls, enrich_calls>>

\* ---------------------------------------------------------------- main: decide
\* faulty variant of reason_of: a missing key falls back to the transit default
reason_of_transit(output) ==
    IF output.decision_reason = Absent THEN DEFAULT_REASON ELSE output.decision_reason

\* llm_output.get("decision_reason", ...)
reason_of(output) ==
    IF output.decision_reason = Absent THEN NO_REASON ELSE output.decision_reason

\* "if llm_output:" with a dict: the reason is read and the items enriched
DecideEnrich ==
    /\ pc = "decide"
    /\ llm_output.truthy
    /\ llm_output.kind = "dict"
    /\ decision_reason' = reason_of(llm_output)
    /\ enrich_calls' = enrich_calls + 1
    /\ LET r == enrich_with_coordinates(llm_output, point_dict)
       IN  IF r.raised
           THEN /\ pc' = "crashed"
                /\ middle_waypoints' = <<>>
           ELSE /\ pc' = "solve"
                /\ middle_waypoints' = r.enriched
    /\ UNCHANGED <<point_dict, extract_vars, llm_output, ordered_waypoints,
                   plan_file, loop_vars, llm_calls>>

\* "if llm_output:" with a true value that is no dict: llm_output.get raises
\* AttributeError, which nothing catches
DecideRaises ==
    /\ pc = "decide"
    /\ llm_output.truthy
    /\ llm_output.kind # "dict"
    /\ decision_reason' = DEFAULT_REASON
    /\ pc' = "crashed"
    /\ UNCHANGED <<point_dict, extract_vars, llm_output, middle_waypoints,
                   ordered_waypoints, plan_file, loop_vars, llm_calls, enrich_calls>>

\* the else branch: no decision, the defaults stay
DecideNone ==
    /\ pc = "decide"
    /\ ~llm_output.truthy
    /\ decision_reason' = DEFAULT_REASON
    /\ middle_waypoints' = <<>>
    /\ pc' = "solve"
    /\ UNCHANGED <<point_dict, extract_vars, llm_output, ordered_waypoints,
                   plan_file, loop_vars, llm_calls, enrich_calls>>

\* ---------------------------------------------------------------- solve
\* faulty variant of after_value_error: the handler does not return
after_value_error_falls_through == "assemble"

\* where main goes on a ValueError from solve_tsp_with_fixed_ends
after_value_error == "aborted"

SolveRaises ==
    /\ pc = "solve"
    /\ ends_missing(point_dict)
    /\ pc' = after_value_error
    /\ UNCHANGED <<point_dict, extract_vars, llm_output, main_vars, loop_vars,
                   llm_calls, enrich_calls>>

\* no intermediate waypoints: [start_point, end_point] at once
SolveEmpty ==
    /\ pc = "solve"
    /\ ~ends_missing(point_dict)
    /\ middle_waypoints = <<>>
    /\ ordered_waypoints' = <<start_point(point_dict), end_point(point_dict)>>
    /\ pc' = "assemble"
    /\ UNCHANGED <<point_dict, extract_vars, llm_output, decision_reason,
                   middle_waypoints, plan_file, loop_vars, llm_calls, enrich_calls>>

\* the greedy loop is set up: unvisited is a copy of the caller's list
SolveStart ==
    /\ pc = "solve"
    /\ ~ends_missing(point_dict)
    /\ middle_waypoints # <<>>
    /\ ordered' = <<>>
    /\ unvisited' = middle_waypoints
    /\ current_pos' = xy(start_point(point_dict).position)
    /\ iterations' = 0
    /\ pc' = "loop"
    /\ UNCHANGED <<point_dict, extract_vars, llm_output, main_vars,
                   llm_calls, enrich_calls>>

\* faulty variant of LoopStep: unvisited is the caller's list itself, not a copy
LoopStep_aliased ==
    /\ pc = "loop"
    /\ unvisited # <<>>
    /\ LET w == nearest(unvisited, current_pos)
       IN  /\ ordered' = Append(ordered, w)
           /\ current_pos' = xy(w.position)
           /\ unvisited' = list_remove(unvisited, w)
           /\ middle_waypoints' = list_remove(unvisited, w)
    /\ iterations' = iterations + 1
    /\ UNCHANGED <<pc, point_dict, extract_vars, llm_output, decision_reason,
                   ordered_waypoints, plan_file, llm_calls, enrich_calls>>

\* one pass of "while unvisited"
LoopStep ==
    /\ pc = "loop"
    /\ unvisited # <<>>
    /\ LET w == nearest(unvisited, current_pos)
       IN  /\ ordered' = Append(ordered, w)
           /\ current_pos' = xy(w.position)
           /\ unvisited' = list_remove(unvisited, w)
    /\ iterations' = iterations + 1
    /\ UNCHANGED <<pc, point_dict, extract_vars, llm_output, main_vars,
                   llm_calls, enrich_calls>>

\* the loop ends and the route is returned
LoopExit ==
    /\ pc = "loop"
    /\ unvisited = <<>>
    /\ ordered_waypoints' =
           <<start_point(point_dict)>> \o ordered \o <<end_point(point_dict)>>
    /\ pc' = "assemble"
    /\ UNCHANGED <<point_dict, extract_vars, llm_output, decision_reason,
                   middle_waypoints, plan_file, loop_vars, llm_calls, enrich_calls>>

\* ---------------------------------------------------------------- assemble
\* the distance is summed, final_plan built and written
Assemble ==
    /\ pc = "assemble"
    /\ plan_file' = Append(plan_file, final_plan(decision_reason, ordered_waypoints))
    /\ pc' = "done"
    /\ UNCHANGED <<point_dict, extract_vars, llm_output, decision_reason,
                   middle_waypoints, ordered_waypoints, loop_vars, llm_calls,
                   enrich_calls>>

Next ==
    \/ Load
    \/ LoadFails
    \/ CallFails
    \/ CallReturnsText
    \/ Tier1
    \/ Tier2
    \/ Tier3
    \/ Loads
    \/ DecideEnrich
    \/ DecideRaises
    \/ DecideNone
    \/ SolveRaises
    \/ SolveEmpty
    \/ SolveStart
    \/ LoopStep
    \/ LoopExit
    \/ Assemble

Spec == Init /\ [][Next]_vars

\* The program is one thread: once solve_tsp_with_fixed_ends is entered, its
\* next statement is always executed.
FairSpec ==
    /\ Spec
    /\ WF_vars(SolveRaises)
    /\ WF_vars(SolveEmpty)
    /\ WF_vars(SolveStart)
    /\ WF_vars(LoopStep)
    /\ WF_vars(LoopExit)

\* ================================================================ properties
Loaded == DOMAIN point_dict # {}

HasEnds == {ENTRANCE, EXIT} \subseteq DOMAIN point_dict

\* solve_tsp_with_fixed_ends has returned a route
Routed == pc \in {"assemble", "done"}

\* enrich_with_coordinates was called and returned
EnrichReturned == enrich_calls = 1 /\ pc # "crashed"

Names(seq) == [i \in DOMAIN seq |-> seq[i].point_name]

Range(seq) == {seq[i] : i \in DOMAIN seq}

\* the multiset of a sequence's elements
SeqBag(seq) == [v \in Range(seq) |-> Cardinality({i \in DOMAIN seq : seq[i] = v})]

Middle(route) == SubSeq(route, 2, Len(route) - 1)

\* u keeps the relative order it has in m
IsSubseq(u, m) ==
    \E f \in [DOMAIN u -> DOMAIN m] :
        /\ \A i \in DOMAIN u : m[f[i]] = u[i]
        /\ \A i, j \in DOMAIN u : i < j => f[i] < f[j]

\* ---------------------------------------------------------------- C1
\* C1: whenever the registry holds the entrance and the exit, the route
\* solve_tsp_with_fixed_ends returns for n intermediate waypoints has length
\* n + 2, starts with the entrance record, ends with the exit record, and holds
\* between them exactly the multiset of the intermediate waypoints it was given.
C1_FixedEndsPermutation ==
    Routed =>
        LET n == Len(middle_waypoints)
        IN  /\ Len(ordered_waypoints) = n + 2
            /\ ordered_waypoints[1] =
                  [point_name |-> ENTRANCE,
                   position |-> <<Round3(point_dict[ENTRANCE].x),
                                  Round3(point_dict[ENTRANCE].y),
                                  Round3(point_dict[ENTRANCE].z)>>,
                   action |-> "arrive", arm_task_type |-> 0]
            /\ ordered_waypoints[n + 2] =
                  [point_name |-> EXIT,
                   position |-> <<Round3(point_dict[EXIT].x),
                                  Round3(point_dict[EXIT].y),
                                  Round3(point_dict[EXIT].z)>>,
                   action |-> "arrive", arm_task_type |-> 0]
            /\ SeqBag(Middle(ordered_waypoints)) = SeqBag(middle_waypoints)

\* two intermediate waypoints were returned in the other order, C before A
C1_Witness ==
    /\ pc = "done"
    /\ Names(middle_waypoints) = <<"A", "C">>
    /\ Names(ordered_waypoints) = <<ENTRANCE, "C", "A", EXIT>>

\* ---------------------------------------------------------------- C2
\* C2: with the entrance and the exit in the registry the run does not abort,
\* whatever the decision stage yields: it never dies on the decision, writes
\* the plan exactly once when it ends, and the plan is the transit-only route
\* entrance, exit when no decision was recovered.
C2_DecisionNeverAborts ==
    (Loaded /\ HasEnds) =>
        /\ pc \notin {"crashed", "aborted"}
        /\ Len(plan_file) <= 1
        /\ pc = "done" =>
              /\ Len(plan_file) = 1
              /\ llm_output = NoneValue =>
                    Names(plan_file[1].waypoints) = <<ENTRANCE, EXIT>>

\* ---------------------------------------------------------------- C3
\* C3 as stated: when the entrance or the exit is missing from the registry,
\* the decision service is never called, nothing is enriched or ordered and
\* the plan is never written.
C3_AbortsBeforePlanning ==
    (Loaded /\ ~HasEnds) =>
        /\ llm_calls = 0
        /\ enrich_calls = 0
        /\ iterations = 0
        /\ ordered_waypoints = <<>>
        /\ plan_file = <<>>

\* C3 amended: when the entrance or the exit is missing from the registry,
\* the run aborts on entering the ordering engine: no waypoint is ordered, no
\* route is returned and the plan is never written (the decision service has
\* been called and a recovered decision enriched by then).
C3_AbortsBeforeOrdering ==
    (Loaded /\ ~HasEnds) =>
        /\ iterations = 0
        /\ ordered = <<>>
        /\ ordered_waypoints = <<>>
        /\ plan_file = <<>>
        /\ pc \notin {"loop", "assemble", "done"}

\* the run aborted on the missing end after calling the service and enriching
C3_Witness ==
    /\ pc = "aborted"
    /\ Loaded
    /\ ~HasEnds
    /\ llm_calls = 1
    /\ enrich_calls = 1
    /\ middle_waypoints # <<>>

\* ---------------------------------------------------------------- C4
\* C4: in every route the pipeline produces, no name other than the entrance
\* and the exit occurs twice, and the entrance and exit names occur only at
\* the first and the last position.
C4_NoRepeatedWaypoint ==
    Routed =>
        LET r == Names(ordered_waypoints)
        IN  /\ \A i, j \in 2..(Len(r) - 1) : i # j => r[i] # r[j]
            /\ \A i \in DOMAIN r : r[i] = ENTRANCE <=> i = 1
            /\ \A i \in DOMAIN r : r[i] = EXIT <=> i = Len(r)

\* ---------------------------------------------------------------- C5
\* the waypoint appended by a pass of the loop is at minimal distance from the
\* current position among the unvisited ones, the earliest of those at that
\* distance, and the current position moves to it
C5_Step ==
    (pc = "loop" /\ Len(ordered') = Len(ordered) + 1) =>
        \E i \in DOMAIN unvisited :
            /\ ordered'[Len(ordered')] = unvisited[i]
            /\ \A j \in DOMAIN unvisited :
                  (unvisited[j].position[1] - current_pos[1]) ^ 2
                    + (unvisited[j].position[2] - current_pos[2]) ^ 2
                  >= (unvisited[i].position[1] - current_pos[1]) ^ 2
                    + (unvisited[i].position[2] - current_pos[2]) ^ 2
            /\ \A j \in 1..(i - 1) :
                  (unvisited[j].position[1] - current_pos[1]) ^ 2
                    + (unvisited[j].position[2] - current_pos[2]) ^ 2
                  > (unvisited[i].position[1] - current_pos[1]) ^ 2
                    + (unvisited[i].position[2] - current_pos[2]) ^ 2
            /\ current_pos' = <<unvisited[i].position[1], unvisited[i].position[2]>>
            /\ unvisited' = SubSeq(unvisited, 1, i - 1)
                              \o SubSeq(unvisited, i + 1, Len(unvisited))

\* the loop starts at the entrance's (x, y) with the whole input list
C5_Start ==
    (pc = "solve" /\ pc' = "loop") =>
        /\ current_pos' = <<Round3(point_dict[ENTRANCE].x), Round3(point_dict[ENTRANCE].y)>>
        /\ unvisited' = middle_waypoints

\* the worked example: input A, B gives entrance, A, B, exit
C5_Example ==
    (Routed /\ Names(middle_waypoints) = <<"A", "B">>) =>
        Names(ordered_waypoints) = <<ENTRANCE, "A", "B", EXIT>>

BoundToRegistry(w) ==
    /\ w.position = <<Round3(point_dict[w.point_name].x),
                      Round3(point_dict[w.point_name].y),
                      Round3(point_dict[w.point_name].z)>>
    /\ w.arm_task_type = point_dict[w.point_name].arm_task

\* C6 as stated: the list enrich_with_coordinates returns holds, in item
\* order, exactly the items whose point name is in the registry and is neither
\* the entrance nor the exit.
C6_KeepsRegistryNames ==
    (EnrichReturned /\ llm_output.plan_kind = "list") =>
        LET InRegistry(n) == n \in DOMAIN point_dict /\ n \notin {ENTRANCE, EXIT}
        IN  Names(middle_waypoints) = SelectSeq(Names(llm_output.items), InRegistry)

\* C6 amended: the list enrich_with_coordinates returns holds, in item order,
\* exactly the items whose point name is non-empty, is in the registry and is
\* neither the entrance nor the exit, each bound to the registry's rounded
\* coordinates; every other item is dropped, and the registry is unchanged.
C6_KeepsNonEmptyRegistryNames ==
    /\ [](EnrichReturned =>
            LET Valid(n) == /\ n # ""
                            /\ n \in DOMAIN point_dict
                            /\ n \notin {ENTRANCE, EXIT}
            IN  /\ Names(middle_waypoints) = SelectSeq(Names(llm_output.items), Valid)
                /\ \A i \in DOMAIN middle_waypoints : BoundToRegistry(middle_waypoints[i]))
    /\ [][pc # "load" => point_dict' = point_dict]_vars

\* an item with the empty name, which the registry holds, was dropped next to
\* a kept one
C6_Witness ==
    /\ EnrichReturned
    /\ "" \in DOMAIN point_dict
    /\ \E i \in DOMAIN llm_output.items : llm_output.items[i].point_name = ""
    /\ Len(llm_output.items) = 2
    /\ Len(middle_waypoints) = 1

\* ---------------------------------------------------------------- C7
\* C7 as stated: the written plan's reason is the decision's reason whenever
\* a decision object was recovered, and it is the transit default exactly when
\* none was.
C7_ReasonVerbatimOrDefault ==
    plan_file # <<>> =>
        LET r == plan_file[1].decision_reason
            recovered == llm_output.kind = "dict" /\ llm_output.truthy
        IN  /\ recovered => r = llm_output.decision_reason
            /\ r = DEFAULT_REASON <=> ~recovered

\* C7 amended: the written plan's reason is the decision's decision_reason
\* value whenever a non-empty decision object holding that key was recovered;
\* it is the second fixed string (no explanation) when a non-empty decision
\* object without that key was recovered; and it is the transit default when
\* no decision was recovered or the recovered value is empty.
C7_ReasonVerbatimOrEitherDefault ==
    plan_file # <<>> =>
        LET r == plan_file[1].decision_reason
        IN  IF llm_output.kind = "dict" /\ llm_output.truthy
            THEN IF llm_output.decision_reason # Absent
                 THEN r = llm_output.decision_reason
                 ELSE r = "no explanation"
            ELSE r = "no task points, transit only"

\* a plan was written for a decision object without a reason
C7_Witness ==
    /\ pc = "done"
    /\ llm_output.kind = "dict"
    /\ llm_output.truthy
    /\ llm_output.decision_reason = Absent
    /\ plan_file[1].decision_reason = NO_REASON

\* ---------------------------------------------------------------- C8
\* the action the claim gives an action code
ClaimedAction(code) ==
    IF code = "arrive" THEN "arrive"
    ELSE IF code = "task_1" THEN "execute_arm_task_1"
    ELSE IF code = "task_2" THEN "execute_arm_task_2"
    ELSE "unknown"

\* C8: every item that names a valid intermediate waypoint is kept whatever
\* its action code is: the three known codes map to their actions and every
\* other value, a missing one or one of another type included, maps to
\* "unknown", no item being dropped and no error raised. (Stated for decisions
\* whose items are all objects with a string or missing point name.)
C8_AnyActionKept ==
    (/\ enrich_calls = 1
     /\ llm_output.plan_kind = "list"
     /\ \A i \in DOMAIN llm_output.items :
           llm_output.items[i].is_dict /\ llm_output.items[i].point_name # PyList)
    =>
        LET Valid(it) == /\ it.point_name \notin {PyNone, ""}
                         /\ it.point_name \in DOMAIN point_dict
                         /\ it.point_name \notin {ENTRANCE, EXIT}
            kept == SelectSeq(llm_output.items, Valid)
        IN  /\ pc # "crashed"
            /\ Len(middle_waypoints) = Len(kept)
            /\ \A i \in DOMAIN kept :
                  /\ middle_waypoints[i].point_name = kept[i].point_name
                  /\ middle_waypoints[i].action = ClaimedAction(kept[i].action)

C10_OnePerPass ==
    (pc = "loop" /\ iterations' # iterations) =>
        /\ iterations' = iterations + 1
        /\ Len(unvisited') = Len(unvisited) - 1

\* ordering leaves the caller's list alone
C10_InputKept ==
    pc \in {"solve", "loop"} => middle_waypoints' = middle_waypoints

\* C10: once started, ordering runs to completion: each pass of the greedy
\* loop removes exactly one waypoint from the pool, the loop ends after exactly
\* n passes for n intermediate waypoints (equal and equidistant ones included)
\* with the pool empty, and the caller's list is not changed.
C10_OrderingTerminates ==
    /\ [][C10_OnePerPass /\ C10_InputKept]_vars
    /\ [](pc = "loop" => iterations + Len(unvisited) = Len(middle_waypoints))
    /\ [](Routed => (iterations = Len(middle_waypoints) /\ unvisited = <<>>))
    /\ ((pc = "solve" /\ ~ends_missing(point_dict)) ~> Routed)

\* the loop ended after two passes over two equal waypoints
C10_Witness ==
    /\ pc = "assemble"
    /\ iterations = 2
    /\ Len(middle_waypoints) = 2
    /\ middle_waypoints[1] = middle_waypoints[2]
    /\ unvisited = <<>>

====
